---- MODULE Spec2Model ----
(***************************************************************************)
(* Z.M.ai academic-policy assistant (src/streamlit_app.py).                *)
(*                                                                         *)
(* Text is modelled as a sequence of one-character strings, so that        *)
(* lower-casing, trimming, splitting, tokenising and substring search are  *)
(* computed character by character as Python computes them.                *)
(***************************************************************************)
EXTENDS Integers, Sequences, FiniteSets, TLC

(***************************************************************************)
(* Bounds of the model.                                                    *)
(***************************************************************************)
\* largest max_chunks value passed to retrieve_context by the harness
MaxK == 2
\* largest number of paragraphs in a harness knowledge base
MaxParas == 2

(***************************************************************************)
(* Characters.                                                             *)
(***************************************************************************)
UpperCase == <<"A","B","C","D","E","F","G","H","I","J","K","L","M",
               "N","O","P","Q","R","S","T","U","V","W","X","Y","Z">>
LowerCase == <<"a","b","c","d","e","f","g","h","i","j","k","l","m",
               "n","o","p","q","r","s","t","u","v","w","x","y","z">>
Digits == {"0","1","2","3","4","5","6","7","8","9"}
Whitespace == {" ", "\n", "\t", "\r"}

Letters == {UpperCase[i] : i \in 1..26} \cup {LowerCase[i] : i \in 1..26}
UpperToLower ==
    [c \in {UpperCase[i] : i \in 1..26} |-> LowerCase[CHOOSE i \in 1..26 : UpperCase[i] = c]]

\* \w of the re module, restricted to ASCII
IsWordChar(c) == c \in Letters \/ c \in Digits \/ c = "_"

\* str.lower() on one character
LowerChar(c) == IF c \in DOMAIN UpperToLower THEN UpperToLower[c] ELSE c

(***************************************************************************)
(* Python string and list primitives used by the program.                  *)
(***************************************************************************)
\* s.lower()
str_lower(s) == [i \in 1..Len(s) |-> LowerChar(s[i])]

\* s.strip(): drop leading and trailing whitespace
RECURSIVE str_lstrip(_)
str_lstrip(s) ==
    IF s = <<>> THEN <<>>
    ELSE IF Head(s) \in Whitespace THEN str_lstrip(Tail(s)) ELSE s

RECURSIVE str_rstrip(_)
str_rstrip(s) ==
    IF s = <<>> THEN <<>>
    ELSE IF s[Len(s)] \in Whitespace THEN str_rstrip(SubSeq(s, 1, Len(s) - 1)) ELSE s

str_strip(s) == str_rstrip(str_lstrip(s))

\* s.find(sub, i): least index j >= i at which sub occurs in s, 0 when none
str_find(s, sub, i) ==
    IF sub = <<>> THEN (IF i <= Len(s) + 1 THEN i ELSE 0)
    ELSE LET hits == {j \in i..(Len(s) - Len(sub) + 1) :
                         s[j] = sub[1] /\ SubSeq(s, j, j + Len(sub) - 1) = sub}
         IN  IF hits = {} THEN 0 ELSE CHOOSE j \in hits : \A h \in hits : j <= h

\* sub in s
str_contains(sub, s) == str_find(s, sub, 1) # 0

\* s.split(sep): cut at the leftmost non-overlapping occurrences of sep
RECURSIVE str_split(_, _)
str_split(s, sep) ==
    LET j == str_find(s, sep, 1)
    IN  IF j = 0 THEN <<s>>
        ELSE <<SubSeq(s, 1, j - 1)>> \o str_split(SubSeq(s, j + Len(sep), Len(s)), sep)

\* sep.join(parts)
RECURSIVE str_join(_, _)
str_join(sep, parts) ==
    IF parts = <<>> THEN <<>>
    ELSE IF Len(parts) = 1 THEN parts[1]
    ELSE parts[1] \o sep \o str_join(sep, Tail(parts))

\* set(re.findall(r'\b\w+\b', s)): the maximal runs of word characters
RECURSIVE re_findall_words(_, _, _)
re_findall_words(s, i, run) ==
    IF i > Len(s) THEN (IF run = <<>> THEN {} ELSE {run})
    ELSE IF IsWordChar(s[i]) THEN re_findall_words(s, i + 1, Append(run, s[i]))
    ELSE (IF run = <<>> THEN {} ELSE {run}) \cup re_findall_words(s, i + 1, <<>>)

\* the last k elements in place of the first k
list_prefix_takes_last(lst, k) ==
    IF k >= 0
    THEN SubSeq(lst, (IF k < Len(lst) THEN Len(lst) - k ELSE 0) + 1, Len(lst))
    ELSE SubSeq(lst, 1, IF Len(lst) + k > 0 THEN Len(lst) + k ELSE 0)

\* lst[:k + 1]: a slice one element too long
list_prefix_off_by_one(lst, k) ==
    SubSeq(lst, 1, IF k + 1 < Len(lst) THEN k + 1 ELSE Len(lst))

\* lst[:k], negative k counting from the end
list_prefix(lst, k) ==
    IF k >= 0
    THEN SubSeq(lst, 1, IF k < Len(lst) THEN k ELSE Len(lst))
    ELSE SubSeq(lst, 1, IF Len(lst) + k > 0 THEN Len(lst) + k ELSE 0)

\* an insertion that places e before the elements of equal key
list_insert_desc_unstable(sorted, e) ==
    LET n == Cardinality({i \in 1..Len(sorted) : sorted[i][1] > e[1]})
    IN  SubSeq(sorted, 1, n) \o <<e>> \o SubSeq(sorted, n + 1, Len(sorted))

\* lst.sort(reverse=True, key=lambda x: x[0]): stable, equal keys keep their order
list_insert_desc(sorted, e) ==
    LET n == Cardinality({i \in 1..Len(sorted) : sorted[i][1] >= e[1]})
    IN  SubSeq(sorted, 1, n) \o <<e>> \o SubSeq(sorted, n + 1, Len(sorted))

RECURSIVE list_sort_desc_from(_, _, _)
list_sort_desc_from(lst, i, sorted) ==
    IF i > Len(lst) THEN sorted
    ELSE list_sort_desc_from(lst, i + 1, list_insert_desc(sorted, lst[i]))

\* the list left in insertion order
list_sort_missing(lst) == lst

list_sort_desc(lst) == list_sort_desc_from(lst, 1, <<>>)

(***************************************************************************)
(* Literals of retrieve_context.                                           *)
(***************************************************************************)
T_what == <<"w","h","a","t">>
T_how == <<"h","o","w">>
T_is == <<"i","s">>
T_the == <<"t","h","e">>
T_a == <<"a">>
T_an == <<"a","n">>
T_are == <<"a","r","e">>
T_you == <<"y","o","u">>
T_attendance == <<"a","t","t","e","n","d","a","n","c","e">>
T_grade == <<"g","r","a","d","e">>
T_exam == <<"e","x","a","m">>
T_present == <<"p","r","e","s","e","n","t">>
T_absent == <<"a","b","s","e","n","t">>
T_gpa == <<"g","p","a">>
T_cgpa == <<"c","g","p","a">>
T_mark == <<"m","a","r","k">>
T_test == <<"t","e","s","t">>
T_quiz == <<"q","u","i","z">>
T_assessment == <<"a","s","s","e","s","s","m","e","n","t">>

ChunkSeparator == <<"\n","\n">>
ContextSeparator == <<"\n","\n","-","-","-","\n","\n">>
MinChunkLen == 20
ExactWeight == 3
PartialWeight == 1
RelatedBonus == 2
DefaultMaxChunks == 5

(***************************************************************************)
(* retrieve_context                                                        *)
(***************************************************************************)
\* the stop-word removal without discard("a")
query_words_keep_a(q) ==
    (((((((re_findall_words(str_lower(q), 1, <<>>)
        \ {T_what}) \ {T_how}) \ {T_is}) \ {T_the})
        \ {T_an}) \ {T_are}) \ {T_you})

\* the tokens taken from the query as typed, without lower()
query_words_case_sensitive(q) ==
    ((((((((re_findall_words(q, 1, <<>>)
        \ {T_what}) \ {T_how}) \ {T_is}) \ {T_the})
        \ {T_a}) \ {T_an}) \ {T_are}) \ {T_you})

\* lines 236-244: lower-cased word tokens of the query minus the stop words
query_words_of(q) ==
    ((((((((re_findall_words(str_lower(q), 1, <<>>)
        \ {T_what}) \ {T_how}) \ {T_is}) \ {T_the})
        \ {T_a}) \ {T_an}) \ {T_are}) \ {T_you})

\* the length test inverted: chunks of 20 characters or more are skipped
passes_length_filter_inverted(chunk) == Len(str_strip(chunk)) < MinChunkLen

\* len(chunk.strip()) < 10: a smaller minimum length
passes_length_filter_min10(chunk) == ~ (Len(str_strip(chunk)) < 10)

\* len(chunk) < 20: the length test without strip()
passes_length_filter_unstripped(chunk) == ~ (Len(chunk) < MinChunkLen)

\* line 254: the chunk is scored only if its trimmed length is at least 20
passes_length_filter(chunk) == ~ (Len(str_strip(chunk)) < MinChunkLen)

\* lines 261-263 and 266-268: one pass over the query words adding weight per hit
RECURSIVE match_pass(_, _, _, _)
match_pass(words, chunk_lower, weight, score) ==
    IF words = {} THEN score
    ELSE LET w == CHOOSE x \in words : TRUE
         IN  match_pass(words \ {w}, chunk_lower, weight,
                        IF str_contains(w, chunk_lower) THEN score + weight ELSE score)

\* the bonus added once per listed substring that occurs instead of once per rule
related_bonus_per_match(query_words, chunk_lower) ==
      (IF T_attendance \in query_words
       THEN RelatedBonus * Cardinality({r \in {T_present, T_absent} :
                                           str_contains(r, chunk_lower)})
       ELSE 0)
    + (IF T_grade \in query_words
       THEN RelatedBonus * Cardinality({r \in {T_gpa, T_cgpa, T_mark} :
                                           str_contains(r, chunk_lower)})
       ELSE 0)
    + (IF T_exam \in query_words
       THEN RelatedBonus * Cardinality({r \in {T_test, T_quiz, T_assessment} :
                                           str_contains(r, chunk_lower)})
       ELSE 0)

\* lines 271-279: related-term bonuses
related_bonus(query_words, chunk_lower) ==
      (IF T_attendance \in query_words
          /\ (str_contains(T_present, chunk_lower) \/ str_contains(T_absent, chunk_lower))
       THEN RelatedBonus ELSE 0)
    + (IF T_grade \in query_words
          /\ (str_contains(T_gpa, chunk_lower) \/ str_contains(T_cgpa, chunk_lower)
              \/ str_contains(T_mark, chunk_lower))
       THEN RelatedBonus ELSE 0)
    + (IF T_exam \in query_words
          /\ (str_contains(T_test, chunk_lower) \/ str_contains(T_quiz, chunk_lower)
              \/ str_contains(T_assessment, chunk_lower))
       THEN RelatedBonus ELSE 0)

\* the score without the related-term bonuses of lines 271-279
chunk_score_without_bonus(query_words, chunk) ==
    LET chunk_lower == str_lower(chunk)
        exact == match_pass(query_words, chunk_lower, ExactWeight, 0)
    IN  match_pass(query_words, chunk_lower, PartialWeight, exact)

\* lines 257-279: the score of one chunk
chunk_score(query_words, chunk) ==
    LET chunk_lower == str_lower(chunk)
        exact == match_pass(query_words, chunk_lower, ExactWeight, 0)
        partial == match_pass(query_words, chunk_lower, PartialWeight, exact)
    IN  partial + related_bonus(query_words, chunk_lower)

\* lines 253-282: the loop over the chunks, appending (score, chunk) pairs
RECURSIVE score_chunks(_, _, _, _)
score_chunks(query_words, chunks, i, scored) ==
    IF i > Len(chunks) THEN scored
    ELSE IF ~ passes_length_filter(chunks[i])
         THEN score_chunks(query_words, chunks, i + 1, scored)
    ELSE LET score == chunk_score(query_words, chunks[i])
         IN  score_chunks(query_words, chunks, i + 1,
                          IF score > 0 THEN Append(scored, <<score, chunks[i]>>) ELSE scored)

\* the selected chunks trimmed before they are joined
retrieve_context_strips_chunks(q, kb, k) ==
    IF kb = <<>> THEN [scored_chunks |-> <<>>, top_chunks |-> <<>>, context |-> <<>>]
    ELSE LET query_words == query_words_of(q)
         IN  IF query_words = {}
             THEN [scored_chunks |-> <<>>, top_chunks |-> <<>>, context |-> <<>>]
             ELSE LET chunks == str_split(kb, ChunkSeparator)
                      sorted == list_sort_desc(score_chunks(query_words, chunks, 1, <<>>))
                      top == [i \in 1..Len(list_prefix(sorted, k)) |->
                                 str_strip(list_prefix(sorted, k)[i][2])]
                  IN  IF sorted # <<>>
                      THEN [scored_chunks |-> sorted, top_chunks |-> top,
                            context |-> str_join(ContextSeparator, top)]
                      ELSE [scored_chunks |-> <<>>, top_chunks |-> <<>>, context |-> <<>>]

\* lines 227-293: the sorted (score, chunk) pairs, the chunks selected, the
\* string returned
retrieve_context(q, kb, k) ==
    IF kb = <<>> THEN [scored_chunks |-> <<>>, top_chunks |-> <<>>, context |-> <<>>]
    ELSE LET query_words == query_words_of(q)
         IN  IF query_words = {}
             THEN [scored_chunks |-> <<>>, top_chunks |-> <<>>, context |-> <<>>]
             ELSE LET chunks == str_split(kb, ChunkSeparator)
                      sorted == list_sort_desc(score_chunks(query_words, chunks, 1, <<>>))
                      top == [i \in 1..Len(list_prefix(sorted, k)) |-> list_prefix(sorted, k)[i][2]]
                  IN  IF sorted # <<>>
                      THEN [scored_chunks |-> sorted, top_chunks |-> top,
                            context |-> str_join(ContextSeparator, top)]
                      ELSE [scored_chunks |-> <<>>, top_chunks |-> <<>>, context |-> <<>>]

(***************************************************************************)
(* Inputs of the retrieval harness.                                        *)
(***************************************************************************)
ParaAttendance == <<"A","t","t","e","n","d","a","n","c","e"," ","p","o","l","i","c","y",":"," ","s","t","u","d","e","n","t","s"," ","m","u","s","t"," ","b","e"," ","p","r","e","s","e","n","t",".">>
ParaGrading == <<"G","r","a","d","i","n","g"," ","u","s","e","s"," ","G","P","A"," ","a","n","d"," ","C","G","P","A",".">>
ParaYPolicyZ == <<"Y"," ","p","o","l","i","c","y"," ","Z">>
ParaPadded == <<" "," ","p","o","l","i","c","y"," "," "," "," "," "," "," "," "," "," "," "," "," "," ">>
ParaExam == <<"E","x","a","m",":"," ","q","u","i","z"," ","o","r"," ","t","e","s","t"," ","m","a","r","k","s",".">>
ParaBonusOnly == <<"A","b","s","e","n","t",":"," ","G","P","A",","," ","q","u","i","z",","," ","t","e","s","t","s">>
ParaTie == <<"P","o","l","i","c","y"," ","o","n"," ","e","x","a","m"," ","a","t","t","e","n","d","a","n","c","e">>
ParaNewlines == <<"\n","T","h","e"," ","e","x","a","m"," ","p","o","l","i","c","y","\n","i","s"," ","h","e","r","e","\n">>

Paragraphs == {ParaAttendance, ParaYPolicyZ, ParaPadded,
               ParaExam, ParaBonusOnly, ParaTie, ParaNewlines}

QueryAttendance == <<"W","h","a","t"," ","i","s"," ","t","h","e"," ","a","t","t","e","n","d","a","n","c","e"," ","p","o","l","i","c","y","?">>
QueryPolicy == <<"p","o","l","i","c","y">>
QueryStopOnly == <<"H","O","W"," ","i","s"," ","A",","," ","t","h","e","?">>
QueryNoToken == <<"?","!">>
QueryGradeExam == <<"g","r","a","d","e"," ","e","x","a","m">>
QueryAll == <<"A","t","t","e","n","d","a","n","c","e",","," ","g","r","a","d","e"," ","&"," ","E","X","A","M">>

QueryExamGrade == <<"W","h","a","t"," ","i","s"," ","t","h","e"," ","E","X","A","M",","," ","G","r","a","d","e"," ","E","X","A","M","?">>

Queries == {QueryAttendance, QueryPolicy, QueryStopOnly, QueryNoToken,
            QueryGradeExam, QueryAll, QueryExamGrade}

\* knowledge bases: up to MaxParas different paragraphs joined by blank lines
ParaLists ==
    UNION {{ps \in [1..n -> Paragraphs] : \A i \in 1..n : \A j \in 1..n : ps[i] = ps[j] => i = j}
           : n \in 0..MaxParas}
KnowledgeBases == {str_join(ChunkSeparator, ps) : ps \in ParaLists}

(***************************************************************************)
(* Data loading: load_pdf_content, scrape_web_content,                     *)
(* load_or_create_knowledge_base.                                          *)
(***************************************************************************)
BannerWidth == 60
MinLineLen == 3
Banner == [i \in 1..BannerWidth |-> "="]
PdfLabel == <<"\n","P","D","F"," ","C","O","N","T","E","N","T","\n">>
WebLabel == <<"\n","W","E","B"," ","C","O","N","T","E","N","T","\n">>
PageMarkerHead == <<"\n","-","-","-"," ","P","D","F"," ","P","a","g","e"," ">>
PageMarkerTail == <<" ","-","-","-","\n">>
DigitChars == <<"1","2","3","4","5","6","7","8","9">>

\* lines 141-157: a missing file gives "", an exception while reading page
\* error_at leaves the loop and the text read so far is returned
RECURSIVE load_pdf_pages(_, _, _)
load_pdf_pages(src, i, text) ==
    IF i > Len(src.pages) THEN text
    ELSE IF src.error_at = i THEN text
    ELSE load_pdf_pages(src, i + 1,
            IF src.pages[i] # <<>>
            THEN text \o PageMarkerHead \o <<DigitChars[i]>> \o PageMarkerTail
                      \o src.pages[i] \o <<"\n">>
            ELSE text)

load_pdf_content(src) ==
    IF ~ src.exists THEN <<>> ELSE load_pdf_pages(src, 1, <<>>)

\* line 179: stripped lines longer than 3 characters
RECURSIVE clean_lines(_, _, _)
clean_lines(lines, i, kept) ==
    IF i > Len(lines) THEN kept
    ELSE clean_lines(lines, i + 1,
            IF str_strip(lines[i]) # <<>> /\ Len(str_strip(lines[i])) > MinLineLen
            THEN Append(kept, str_strip(lines[i]))
            ELSE kept)

\* the scrape without the filter of line 179: every stripped line is kept
scrape_web_content_keeps_every_line(src) ==
    IF ~ src.ok THEN <<>>
    ELSE LET lines == str_split(src.text, <<"\n">>)
         IN  str_join(<<"\n">>, [i \in 1..Len(lines) |-> str_strip(lines[i])])

\* lines 160-186: any exception of the request or the parse gives ""
scrape_web_content(src) ==
    IF ~ src.ok THEN <<>>
    ELSE str_join(<<"\n">>, clean_lines(str_split(src.text, <<"\n">>), 1, <<>>))

\* what the file system does to one run of the loader: nothing, or a failure
\* of mkdir (line 192), of reading the cache (lines 197-198) or of opening it
\* for writing (line 220)
Faults == {"none", "mkdir", "cache_read", "cache_write"}

\* the loader without the cache branch of lines 196-201
load_or_create_knowledge_base_ignores_cache(cache, pdf_src, web_src, fault) ==
    LET pdf_content == load_pdf_content(pdf_src)
        web_content == scrape_web_content(web_src)
        content == (IF pdf_content # <<>>
                    THEN <<"\n">> \o Banner \o PdfLabel \o Banner \o <<"\n">>
                             \o pdf_content \o <<"\n">>
                    ELSE <<>>)
                   \o (IF web_content # <<>>
                       THEN <<"\n">> \o Banner \o WebLabel \o Banner \o <<"\n">>
                                \o web_content \o <<"\n">>
                       ELSE <<>>)
    IN  [content |-> content,
         cache_file |-> IF content # <<>> THEN [exists |-> TRUE, content |-> content]
                        ELSE cache,
         kind |-> "sources", raised |-> fault # "none"]

\* the loader without the "if content:" guard of line 218
load_or_create_knowledge_base_caches_empty(cache, pdf_src, web_src, fault) ==
    IF cache.exists
    THEN [content |-> cache.content, cache_file |-> cache, kind |-> "cache",
          raised |-> fault \in {"mkdir", "cache_read"}]
    ELSE LET pdf_content == load_pdf_content(pdf_src)
             web_content == scrape_web_content(web_src)
             content == (IF pdf_content # <<>>
                         THEN <<"\n">> \o Banner \o PdfLabel \o Banner \o <<"\n">>
                                  \o pdf_content \o <<"\n">>
                         ELSE <<>>)
                        \o (IF web_content # <<>>
                            THEN <<"\n">> \o Banner \o WebLabel \o Banner \o <<"\n">>
                                     \o web_content \o <<"\n">>
                            ELSE <<>>)
         IN  [content |-> content,
              cache_file |-> [exists |-> TRUE, content |-> content],
              kind |-> "sources", raised |-> fault \in {"mkdir", "cache_write"}]

\* lines 189-223: the text returned, the cache file afterwards, the branch taken
\* ("cache": lines 196-201, "sources": lines 203-223) and whether an exception
\* left the function; none of the three file-system calls is inside a try
load_or_create_knowledge_base(cache, pdf_src, web_src, fault) ==
    IF fault = "mkdir"
    THEN [content |-> <<>>, cache_file |-> cache, kind |-> "none", raised |-> TRUE]
    ELSE IF cache.exists
    THEN IF fault = "cache_read"
         THEN [content |-> <<>>, cache_file |-> cache, kind |-> "cache", raised |-> TRUE]
         ELSE [content |-> cache.content, cache_file |-> cache, kind |-> "cache",
               raised |-> FALSE]
    ELSE LET pdf_content == load_pdf_content(pdf_src)
             web_content == scrape_web_content(web_src)
             with_pdf == IF pdf_content # <<>>
                         THEN <<"\n">> \o Banner \o PdfLabel \o Banner \o <<"\n">>
                                  \o pdf_content \o <<"\n">>
                         ELSE <<>>
             content == IF web_content # <<>>
                        THEN with_pdf \o <<"\n">> \o Banner \o WebLabel \o Banner \o <<"\n">>
                                 \o web_content \o <<"\n">>
                        ELSE with_pdf
         IN  IF content # <<>> /\ fault = "cache_write"
             THEN [content |-> <<>>, cache_file |-> cache, kind |-> "sources",
                   raised |-> TRUE]
             ELSE [content |-> content,
                   cache_file |-> IF content # <<>>
                                  THEN [exists |-> TRUE, content |-> content]
                                  ELSE cache,
                   kind |-> "sources", raised |-> FALSE]

(***************************************************************************)
(* get_llm_response                                                        *)
(***************************************************************************)
HistoryWindow == 6
HistoryCap == 100
ApiKeyMissingText == <<"A","P","I"," ","K","e","y"," ","m","i","s","s","i","n","g","."," ","P","l","e","a","s","e"," ","a","d","d"," ","G","R","O","Q","_","A","P","I","_","K","E","Y"," ","t","o"," ","s","e","c","r","e","t","s",".">>
ErrorPrefix == <<"E","r","r","o","r"," ","g","e","n","e","r","a","t","i","n","g"," ","r","e","s","p","o","n","s","e",":"," ">>
ExceptionText == <<"C","o","n","n","e","c","t","i","o","n"," ","e","r","r","o","r",".">>
IndexErrorText == <<"l","i","s","t"," ","i","n","d","e","x"," ","o","u","t"," ","o","f"," ","r","a","n","g","e">>
CompletionText == <<"P","l","e","a","s","e"," ","s","e","e"," ","t","h","e"," ","p","o","l","i","c","y",".">>
SystemHead == <<"Y","o","u"," ","a","r","e"," ","Z",".","M",".","a","i","\n","\n","R","E","F","E","R","E","N","C","E"," ","M","A","T","E","R","I","A","L",":","\n">>
SystemTail == <<"\n","\n","I","N","S","T","R","U","C","T","I","O","N","S",":","\n">>

\* lst[-n:]
list_suffix(lst, n) ==
    SubSeq(lst, IF Len(lst) > n THEN Len(lst) - n + 1 ELSE 1, Len(lst))

\* lines 307-321: the system prompt embeds the context
system_prompt(ctx) == SystemHead \o ctx \o SystemTail

\* the call without the credential check of lines 300-301
get_llm_response_key_unchecked(q, ctx, hist, key, outcome) ==
    [request |-> <<[role |-> "system", content |-> system_prompt(ctx)]>>
                     \o list_suffix(hist, HistoryWindow)
                     \o <<[role |-> "user", content |-> q]>>,
     client |-> TRUE, sent |-> TRUE, raised |-> FALSE,
     response |-> IF outcome = "ok" THEN CompletionText ELSE ErrorPrefix \o ExceptionText]

\* the call sending the whole history instead of history[-6:]
get_llm_response_whole_history(q, ctx, hist, key, outcome) ==
    IF ~ key
    THEN [response |-> ApiKeyMissingText, request |-> <<>>, client |-> FALSE,
          sent |-> FALSE, raised |-> FALSE]
    ELSE [request |-> <<[role |-> "system", content |-> system_prompt(ctx)]>> \o hist
                          \o <<[role |-> "user", content |-> q]>>,
          client |-> TRUE, sent |-> TRUE, raised |-> FALSE,
          response |-> IF outcome = "ok" THEN CompletionText
                       ELSE ErrorPrefix \o ExceptionText]

\* the call with response.choices[0] read after the try block
get_llm_response_choice_outside_try(q, ctx, hist, key, outcome) ==
    IF ~ key
    THEN [response |-> ApiKeyMissingText, request |-> <<>>, client |-> FALSE,
          sent |-> FALSE, raised |-> FALSE]
    ELSE [request |-> <<[role |-> "system", content |-> system_prompt(ctx)]>>
                          \o list_suffix(hist, HistoryWindow)
                          \o <<[role |-> "user", content |-> q]>>,
          client |-> TRUE, sent |-> TRUE, raised |-> outcome = "no_choices",
          response |-> IF outcome = "ok" THEN CompletionText
                       ELSE IF outcome = "exception" THEN ErrorPrefix \o ExceptionText
                       ELSE <<>>]

\* the call without the try block of lines 333-343
get_llm_response_without_try(q, ctx, hist, key, outcome) ==
    IF ~ key
    THEN [response |-> ApiKeyMissingText, request |-> <<>>, client |-> FALSE,
          sent |-> FALSE, raised |-> FALSE]
    ELSE [request |-> <<[role |-> "system", content |-> system_prompt(ctx)]>>
                          \o list_suffix(hist, HistoryWindow)
                          \o <<[role |-> "user", content |-> q]>>,
          client |-> TRUE, sent |-> TRUE, raised |-> outcome # "ok",
          response |-> IF outcome = "ok" THEN CompletionText ELSE <<>>]

\* lines 297-343: the value returned and what the call did on the way: whether
\* a client was constructed (line 303), the request sent to the completion
\* endpoint (<<>> when none was sent) and whether an exception left the function;
\* outcome is what the endpoint does with a request: "ok", "exception" (network
\* or API error) or "no_choices" (a response whose choices list is empty)
get_llm_response(q, ctx, hist, key, outcome) ==
    IF ~ key
    THEN [response |-> ApiKeyMissingText, request |-> <<>>, client |-> FALSE,
          sent |-> FALSE, raised |-> FALSE]
    ELSE LET msgs == <<[role |-> "system", content |-> system_prompt(ctx)]>>
                         \o list_suffix(hist, HistoryWindow)
                         \o <<[role |-> "user", content |-> q]>>
         IN  [request |-> msgs, client |-> TRUE, sent |-> TRUE, raised |-> FALSE,
              response |-> CASE outcome = "ok" -> CompletionText
                             [] outcome = "exception" -> ErrorPrefix \o ExceptionText
                             [] outcome = "no_choices" -> ErrorPrefix \o IndexErrorText]

(***************************************************************************)
(* Config.validate (src/config/settings.py)                                *)
(***************************************************************************)
ErrApiKey == "GROQ_API_KEY is required"
ErrChunkSize == "CHUNK_SIZE must be positive"
ErrOverlapNegative == "CHUNK_OVERLAP must be non-negative"
ErrOverlapTooLarge == "CHUNK_OVERLAP must be less than CHUNK_SIZE"
ErrThreshold == "SIMILARITY_THRESHOLD must be between 0 and 1"
\* the similarity threshold is kept in hundredths: 100 stands for 1.0
ThresholdOne == 100

\* the errors list without the overlap >= chunk_size test of lines 215-216
validation_errors_skip_overlap(cfg) ==
    (IF cfg.api_key = "" THEN <<ErrApiKey>> ELSE <<>>)
    \o (IF cfg.chunk_size <= 0 THEN <<ErrChunkSize>> ELSE <<>>)
    \o (IF cfg.chunk_overlap < 0 THEN <<ErrOverlapNegative>> ELSE <<>>)
    \o (IF ~ (0 <= cfg.similarity_threshold /\ cfg.similarity_threshold <= ThresholdOne)
        THEN <<ErrThreshold>> ELSE <<>>)

\* lines 205-219: the errors list, one entry per failed test, in test order
validation_errors(cfg) ==
    (IF cfg.api_key = "" THEN <<ErrApiKey>> ELSE <<>>)
    \o (IF cfg.chunk_size <= 0 THEN <<ErrChunkSize>> ELSE <<>>)
    \o (IF cfg.chunk_overlap < 0 THEN <<ErrOverlapNegative>> ELSE <<>>)
    \o (IF cfg.chunk_overlap >= cfg.chunk_size THEN <<ErrOverlapTooLarge>> ELSE <<>>)
    \o (IF ~ (0 <= cfg.similarity_threshold /\ cfg.similarity_threshold <= ThresholdOne)
        THEN <<ErrThreshold>> ELSE <<>>)

\* lines 200-224: True, or a ValueError whose message lists the errors
validate(cfg) ==
    IF validation_errors(cfg) # <<>>
    THEN [state |-> "raised", value |-> "ValueError", errors |-> validation_errors(cfg)]
    ELSE [state |-> "returned", value |-> "True", errors |-> <<>>]

\* largest chunk size and overlap of a validated configuration
MaxChunkSize == 2
ApiKeys == {"", "gsk_key"}
ChunkSizes == -1..MaxChunkSize
ChunkOverlaps == -1..MaxChunkSize
Thresholds == {-1, 0, 25, ThresholdOne, ThresholdOne + 1}
Configs == [api_key : ApiKeys, chunk_size : ChunkSizes, chunk_overlap : ChunkOverlaps,
            similarity_threshold : Thresholds]
\* the defaults of GroqConfig and RAGConfig
DefaultConfig == [api_key |-> "", chunk_size |-> 1000, chunk_overlap |-> 200,
                  similarity_threshold |-> 25]
NoValidation == [state |-> "none", value |-> "none", errors |-> <<>>]

(***************************************************************************)
(* Inputs of the chat session.                                             *)
(***************************************************************************)
\* largest number of user messages submitted in one behaviour
MaxTurns == 3

CacheXY == <<"X","\n","\n","Y"," ","p","o","l","i","c","y"," ","Z">>
CacheTwoParas == ParaAttendance \o ChunkSeparator \o ParaGrading
SoupText == <<"E","x","a","m"," ","p","o","l","i","c","y"," ","a","n","d"," ","a","t","t","e","n","d","a","n","c","e","\n","\n","o","k","\n"," "," "," ","\n","G","r","a","d","i","n","g"," ","u","s","e","s"," ","G","P","A"," ","a","n","d"," ","C","G","P","A",".">>

NoCache == [exists |-> FALSE, content |-> <<>>]
CacheFiles == {NoCache,
               [exists |-> TRUE, content |-> CacheXY],
               [exists |-> TRUE, content |-> CacheTwoParas]}

PdfPages == <<ParaAttendance, ParaGrading>>
PdfSources == {[exists |-> FALSE, pages |-> <<>>, error_at |-> 0]}
              \cup {[exists |-> TRUE, pages |-> PdfPages, error_at |-> e] : e \in 0..2}

WebSources == {[ok |-> FALSE, text |-> <<>>], [ok |-> TRUE, text |-> SoupText]}

Prompts == {QueryPolicy, QueryAttendance}
Outcomes == {"ok", "exception"}

\* largest number of completed loader runs in one behaviour
MaxLoads == 2

\* inputs of get_llm_response called on its own
MaxHistory == 7
LlmOutcomes == {"ok", "exception", "no_choices"}
LlmContexts == {<<>>, ParaAttendance}
HistoryEntries == {[role |-> "user", content |-> QueryPolicy],
                   [role |-> "assistant", content |-> CompletionText]}
Histories == UNION {[1..n -> HistoryEntries] : n \in 0..MaxHistory}

NoCounts == [retrievals |-> 0, llm_calls |-> 0, requests |-> 0]
NoEffects == [client |-> FALSE, sent |-> FALSE, outcome |-> "none"]
NoLoad == [kind |-> "none", content |-> <<>>, raised |-> FALSE]

(***************************************************************************)
(* State.                                                                  *)
(***************************************************************************)
VARIABLES
    query,            \* argument of the retrieve_context call
    knowledge_base,   \* argument of the retrieve_context call
    max_chunks,       \* argument of the retrieve_context call
    rc,               \* position of the call: "idle", "called", "returned"
    scored_chunks,    \* local of retrieve_context at its return
    top_chunks,       \* local of retrieve_context at its return
    context,          \* the string returned
    calls,            \* every completed retrieve_context call: arguments and result
    cache_file,       \* data/policy_content.txt: [exists, content]
    pdf,              \* the PDF source: [exists, pages, error_at]
    web,              \* the web source: [ok, text]
    api_key,          \* whether GROQ_API_KEY is configured
    initialized,      \* "messages" in st.session_state
    messages,         \* st.session_state.messages
    knowledge_loaded, \* st.session_state.knowledge_loaded
    session_kb,       \* st.session_state.knowledge_base
    pc,               \* position in show_chat_page: "idle", "retrieve", "llm", "append"
    prompt,           \* the chat input of the current run
    response,         \* local of show_chat_page
    request,          \* the messages of the last completion request
    turns,            \* number of user messages submitted so far
    history,          \* argument of the get_llm_response call
    lc,               \* position of the call: "idle", "called", "returned", "raised"
    effects,          \* what the call did: [client, sent, outcome]
    last_load,        \* the last loader run of the session: [kind, content, raised]
    loader_runs,      \* number of completed loader runs so far
    counts,           \* calls made so far: [retrievals, llm_calls, requests]
    config,           \* the Config instance: [api_key, chunk_size, chunk_overlap,
                      \* similarity_threshold], the threshold in hundredths
    validation        \* the last Config.validate call: [state, value, errors]

retrieve_vars == <<query, knowledge_base, max_chunks, rc, scored_chunks, top_chunks, context, calls>>
env_vars == <<cache_file, pdf, web, api_key>>
session_vars == <<initialized, messages, knowledge_loaded, session_kb>>
run_vars == <<pc, prompt, response, request, turns>>
llm_vars == <<history, lc, effects>>
load_vars == <<last_load, loader_runs>>
cfg_vars == <<config, validation>>
vars == <<retrieve_vars, env_vars, session_vars, run_vars, llm_vars, load_vars, counts,
          cfg_vars>>

CallRecord(r) ==
    [query |-> query', knowledge_base |-> knowledge_base', max_chunks |-> max_chunks',
     context |-> r.context]

(***************************************************************************)
(* The retrieval function called on its own with inputs from bounded sets. *)
(***************************************************************************)
RetrieveInit ==
    /\ query \in Queries
    /\ knowledge_base \in KnowledgeBases
    /\ max_chunks \in -1..MaxK
    /\ rc = "called"
    /\ scored_chunks = <<>>
    /\ top_chunks = <<>>
    /\ context = <<>>
    /\ calls = {}
    /\ cache_file = NoCache
    /\ pdf = [exists |-> FALSE, pages |-> <<>>, error_at |-> 0]
    /\ web = [ok |-> FALSE, text |-> <<>>]
    /\ api_key = FALSE
    /\ initialized = FALSE
    /\ messages = <<>>
    /\ knowledge_loaded = FALSE
    /\ session_kb = <<>>
    /\ pc = "idle"
    /\ prompt = <<>>
    /\ response = <<>>
    /\ request = <<>>
    /\ turns = 0
    /\ history = <<>>
    /\ lc = "idle"
    /\ effects = NoEffects
    /\ last_load = NoLoad
    /\ loader_runs = 0
    /\ counts = NoCounts
    /\ config = DefaultConfig
    /\ validation = NoValidation

\* the body of retrieve_context, from call to return
RetrieveReturn ==
    /\ rc = "called"
    /\ LET r == retrieve_context(query, knowledge_base, max_chunks)
       IN  /\ scored_chunks' = r.scored_chunks
           /\ top_chunks' = r.top_chunks
           /\ context' = r.context
           /\ UNCHANGED <<query, knowledge_base, max_chunks>>
           /\ calls' = calls \cup {CallRecord(r)}
    /\ rc' = "returned"
    /\ counts' = [counts EXCEPT !.retrievals = @ + 1]
    /\ UNCHANGED <<env_vars, session_vars, run_vars, llm_vars, load_vars, cfg_vars>>

RetrieveNext == RetrieveReturn

RetrieveSpec == RetrieveInit /\ [][RetrieveNext]_vars

(***************************************************************************)
(* Config.validate called on configurations from bounded sets.             *)
(***************************************************************************)
ConfigInit ==
    /\ query = <<>>
    /\ knowledge_base = <<>>
    /\ max_chunks = DefaultMaxChunks
    /\ rc = "idle"
    /\ scored_chunks = <<>>
    /\ top_chunks = <<>>
    /\ context = <<>>
    /\ calls = {}
    /\ cache_file = NoCache
    /\ pdf = [exists |-> FALSE, pages |-> <<>>, error_at |-> 0]
    /\ web = [ok |-> FALSE, text |-> <<>>]
    /\ api_key = FALSE
    /\ initialized = FALSE
    /\ messages = <<>>
    /\ knowledge_loaded = FALSE
    /\ session_kb = <<>>
    /\ pc = "idle"
    /\ prompt = <<>>
    /\ response = <<>>
    /\ request = <<>>
    /\ turns = 0
    /\ history = <<>>
    /\ lc = "idle"
    /\ effects = NoEffects
    /\ last_load = NoLoad
    /\ loader_runs = 0
    /\ counts = NoCounts
    /\ config \in Configs
    /\ validation = NoValidation

\* config.validate() of get_config_with_validation, from call to return or raise
Validate ==
    /\ validation.state = "none"
    /\ validation' = validate(config)
    /\ config' = config
    /\ UNCHANGED <<retrieve_vars, env_vars, session_vars, run_vars, llm_vars, load_vars,
                   counts>>

ConfigNext == Validate

ConfigSpec == ConfigInit /\ [][ConfigNext]_vars

(***************************************************************************)
(* The answer function called on its own with inputs from bounded sets.    *)
(***************************************************************************)
LlmInit ==
    /\ query = <<>>
    /\ knowledge_base = <<>>
    /\ max_chunks = DefaultMaxChunks
    /\ rc = "idle"
    /\ scored_chunks = <<>>
    /\ top_chunks = <<>>
    /\ context \in LlmContexts
    /\ calls = {}
    /\ cache_file = NoCache
    /\ pdf = [exists |-> FALSE, pages |-> <<>>, error_at |-> 0]
    /\ web = [ok |-> FALSE, text |-> <<>>]
    /\ api_key \in BOOLEAN
    /\ initialized = FALSE
    /\ messages = <<>>
    /\ knowledge_loaded = FALSE
    /\ session_kb = <<>>
    /\ pc = "idle"
    /\ prompt \in Prompts
    /\ response = <<>>
    /\ request = <<>>
    /\ turns = 0
    /\ history \in Histories
    /\ lc = "called"
    /\ effects = NoEffects
    /\ last_load = NoLoad
    /\ loader_runs = 0
    /\ counts = NoCounts
    /\ config = DefaultConfig
    /\ validation = NoValidation

\* the body of get_llm_response, from call to return
LlmReturn(outcome) ==
    /\ lc = "called"
    /\ LET r == get_llm_response(prompt, context, history, api_key, outcome)
       IN  /\ response' = r.response
           /\ request' = r.request
           /\ effects' = [client |-> r.client, sent |-> r.sent,
                          outcome |-> IF r.sent THEN outcome ELSE "none"]
           /\ lc' = IF r.raised THEN "raised" ELSE "returned"
           /\ counts' = [counts EXCEPT !.llm_calls = @ + 1,
                                       !.requests = IF r.sent THEN @ + 1 ELSE @]
    /\ UNCHANGED <<retrieve_vars, env_vars, session_vars, pc, prompt, turns, history,
                   load_vars, cfg_vars>>

LlmNext == \E outcome \in LlmOutcomes : LlmReturn(outcome)

LlmSpec == LlmInit /\ [][LlmNext]_vars

(***************************************************************************)
(* The chat page: show_chat_page, one run per render or user message.      *)
(***************************************************************************)
Init ==
    /\ query = <<>>
    /\ knowledge_base = <<>>
    /\ max_chunks = DefaultMaxChunks
    /\ rc = "idle"
    /\ scored_chunks = <<>>
    /\ top_chunks = <<>>
    /\ context = <<>>
    /\ calls = {}
    /\ cache_file \in CacheFiles
    /\ pdf \in PdfSources
    /\ web \in WebSources
    /\ api_key \in BOOLEAN
    /\ initialized = FALSE
    /\ messages = <<>>
    /\ knowledge_loaded = FALSE
    /\ session_kb = <<>>
    /\ pc = "idle"
    /\ prompt = <<>>
    /\ response = <<>>
    /\ request = <<>>
    /\ turns = 0
    /\ history = <<>>
    /\ lc = "idle"
    /\ effects = NoEffects
    /\ last_load = NoLoad
    /\ loader_runs = 0
    /\ counts = NoCounts
    /\ config = DefaultConfig
    /\ validation = NoValidation

\* the prologue loading again while the knowledge base is empty
Prologue_retries_empty_load(fault) ==
    LET msgs == IF initialized THEN messages ELSE <<>>
        loaded == IF initialized THEN knowledge_loaded /\ session_kb # <<>> ELSE FALSE
        ld == load_or_create_knowledge_base(cache_file, pdf, web, fault)
    IN  IF loaded
        THEN [messages |-> msgs, knowledge_loaded |-> TRUE, session_kb |-> session_kb,
              cache_file |-> cache_file, last_load |-> last_load,
              loader_runs |-> loader_runs]
        ELSE [messages |-> msgs,
              knowledge_loaded |-> ~ ld.raised,
              session_kb |-> IF ld.raised THEN <<>> ELSE ld.content,
              cache_file |-> ld.cache_file,
              last_load |-> [kind |-> ld.kind, content |-> ld.content,
                             raised |-> ld.raised],
              loader_runs |-> IF ld.raised THEN loader_runs ELSE loader_runs + 1]

\* the prologue without the test of the loaded flag at line 376
Prologue_flag_ignored(fault) ==
    LET ld == load_or_create_knowledge_base(cache_file, pdf, web, fault)
    IN  [messages |-> IF initialized THEN messages ELSE <<>>,
         knowledge_loaded |-> ~ ld.raised,
         session_kb |-> IF ld.raised THEN <<>> ELSE ld.content,
         cache_file |-> ld.cache_file,
         last_load |-> [kind |-> ld.kind, content |-> ld.content, raised |-> ld.raised],
         loader_runs |-> IF ld.raised THEN loader_runs ELSE loader_runs + 1]

\* lines 371-379: session state is created on the first run and the knowledge
\* base is loaded while the loaded flag is unset; an exception of the loader
\* ends the run before the flag is set
Prologue(fault) ==
    LET msgs == IF initialized THEN messages ELSE <<>>
        loaded == IF initialized THEN knowledge_loaded ELSE FALSE
        ld == load_or_create_knowledge_base(cache_file, pdf, web, fault)
    IN  IF loaded
        THEN [messages |-> msgs, knowledge_loaded |-> TRUE, session_kb |-> session_kb,
              cache_file |-> cache_file, last_load |-> last_load,
              loader_runs |-> loader_runs]
        ELSE [messages |-> msgs,
              knowledge_loaded |-> ~ ld.raised,
              session_kb |-> IF ld.raised THEN <<>> ELSE ld.content,
              cache_file |-> ld.cache_file,
              last_load |-> [kind |-> ld.kind, content |-> ld.content,
                             raised |-> ld.raised],
              loader_runs |-> IF ld.raised THEN loader_runs ELSE loader_runs + 1]

\* a run of show_chat_page without chat input (lines 371-387)
Render(fault) ==
    /\ pc = "idle"
    /\ initialized' = TRUE
    /\ messages' = Prologue(fault).messages
    /\ knowledge_loaded' = Prologue(fault).knowledge_loaded
    /\ session_kb' = Prologue(fault).session_kb
    /\ cache_file' = Prologue(fault).cache_file
    /\ last_load' = Prologue(fault).last_load
    /\ loader_runs' = Prologue(fault).loader_runs
    /\ UNCHANGED <<retrieve_vars, pdf, web, api_key, run_vars, llm_vars, counts, cfg_vars>>

\* a run with chat input p, up to the appended user message (lines 371-391);
\* the input widget exists only after a run that reached line 387, so the
\* session state is there and the loaded flag is set
Submit(p) ==
    /\ pc = "idle"
    /\ initialized
    /\ knowledge_loaded
    /\ turns < MaxTurns
    /\ messages' = Append(messages, [role |-> "user", content |-> p])
    /\ prompt' = p
    /\ pc' = "retrieve"
    /\ turns' = turns + 1
    /\ UNCHANGED <<retrieve_vars, env_vars, initialized, knowledge_loaded, session_kb,
                   response, request, llm_vars, load_vars, counts, cfg_vars>>

\* the call with scored_chunks kept from the previous call instead of starting empty
RetrieveStep_stale_scores ==
    /\ pc = "retrieve"
    /\ query' = prompt
    /\ knowledge_base' = session_kb
    /\ max_chunks' = DefaultMaxChunks
    /\ LET r == retrieve_context(prompt, session_kb, DefaultMaxChunks)
           stale == list_sort_desc(scored_chunks \o r.scored_chunks)
           top == [i \in 1..Len(list_prefix(stale, DefaultMaxChunks)) |->
                      list_prefix(stale, DefaultMaxChunks)[i][2]]
       IN  /\ scored_chunks' = stale
           /\ top_chunks' = top
           /\ context' = str_join(ContextSeparator, top)
           /\ calls' = calls \cup {[query |-> prompt, knowledge_base |-> session_kb,
                                     max_chunks |-> DefaultMaxChunks,
                                     context |-> str_join(ContextSeparator, top)]}
    /\ rc' = "returned"
    /\ pc' = "llm"
    /\ counts' = [counts EXCEPT !.retrievals = @ + 1]
    /\ UNCHANGED <<env_vars, session_vars, prompt, response, request, turns,
                   llm_vars, load_vars, cfg_vars>>

\* line 397: context = retrieve_context(prompt, st.session_state.knowledge_base)
RetrieveStep ==
    /\ pc = "retrieve"
    /\ query' = prompt
    /\ knowledge_base' = session_kb
    /\ max_chunks' = DefaultMaxChunks
    /\ LET r == retrieve_context(prompt, session_kb, DefaultMaxChunks)
       IN  /\ scored_chunks' = r.scored_chunks
           /\ top_chunks' = r.top_chunks
           /\ context' = r.context
           /\ calls' = calls \cup {CallRecord(r)}
    /\ rc' = "returned"
    /\ pc' = "llm"
    /\ counts' = [counts EXCEPT !.retrievals = @ + 1]
    /\ UNCHANGED <<env_vars, session_vars, prompt, response, request, turns,
                   llm_vars, load_vars, cfg_vars>>

\* the call given the whole of messages instead of messages[:-1]
LLMStep_passes_all_messages(outcome) ==
    /\ pc = "llm"
    /\ history' = messages
    /\ LET r == get_llm_response(prompt, context, history', api_key, outcome)
       IN  /\ response' = r.response
           /\ request' = r.request
           /\ effects' = [client |-> r.client, sent |-> r.sent,
                          outcome |-> IF r.sent THEN outcome ELSE "none"]
           /\ lc' = "returned"
           /\ counts' = [counts EXCEPT !.llm_calls = @ + 1,
                                       !.requests = IF r.sent THEN @ + 1 ELSE @]
           /\ pc' = "append"
    /\ UNCHANGED <<retrieve_vars, env_vars, session_vars, prompt, turns, load_vars,
                   cfg_vars>>

\* the call given an empty context instead of the one just retrieved
LLMStep_empty_context(outcome) ==
    /\ pc = "llm"
    /\ history' = SubSeq(messages, 1, Len(messages) - 1)
    /\ LET r == get_llm_response(prompt, <<>>, history', api_key, outcome)
       IN  /\ response' = r.response
           /\ request' = r.request
           /\ effects' = [client |-> r.client, sent |-> r.sent,
                          outcome |-> IF r.sent THEN outcome ELSE "none"]
           /\ lc' = "returned"
           /\ counts' = [counts EXCEPT !.llm_calls = @ + 1,
                                       !.requests = IF r.sent THEN @ + 1 ELSE @]
           /\ pc' = "append"
    /\ UNCHANGED <<retrieve_vars, env_vars, session_vars, prompt, turns, load_vars,
                   cfg_vars>>

\* line 400: response = get_llm_response(prompt, context, messages[:-1]);
\* an exception leaving the call would end the run before line 405
LLMStep(outcome) ==
    /\ pc = "llm"
    /\ history' = SubSeq(messages, 1, Len(messages) - 1)
    /\ LET r == get_llm_response(prompt, context, history', api_key, outcome)
       IN  /\ response' = r.response
           /\ request' = r.request
           /\ effects' = [client |-> r.client, sent |-> r.sent,
                          outcome |-> IF r.sent THEN outcome ELSE "none"]
           /\ lc' = IF r.raised THEN "raised" ELSE "returned"
           /\ counts' = [counts EXCEPT !.llm_calls = @ + 1,
                                       !.requests = IF r.sent THEN @ + 1 ELSE @]
           /\ pc' = IF r.raised THEN "idle" ELSE "append"
    /\ UNCHANGED <<retrieve_vars, env_vars, session_vars, prompt, turns, load_vars,
                   cfg_vars>>

\* the trim with a cap of 99
AppendStep_odd_cap ==
    /\ pc = "append"
    /\ LET appended == Append(messages, [role |-> "assistant", content |-> response])
       IN  messages' = IF Len(appended) > HistoryCap - 1
                       THEN list_suffix(appended, HistoryCap - 1)
                       ELSE appended
    /\ pc' = "idle"
    /\ UNCHANGED <<retrieve_vars, env_vars, initialized, knowledge_loaded, session_kb,
                   prompt, response, request, turns, llm_vars, load_vars, counts, cfg_vars>>

\* the trim keeping messages[:100] instead of messages[-100:]
AppendStep_keeps_oldest ==
    /\ pc = "append"
    /\ LET appended == Append(messages, [role |-> "assistant", content |-> response])
       IN  messages' = IF Len(appended) > HistoryCap
                       THEN SubSeq(appended, 1, HistoryCap)
                       ELSE appended
    /\ pc' = "idle"
    /\ UNCHANGED <<retrieve_vars, env_vars, initialized, knowledge_loaded, session_kb,
                   prompt, response, request, turns, llm_vars, load_vars, counts, cfg_vars>>

\* lines 405-409: the assistant message is appended and the history trimmed
AppendStep ==
    /\ pc = "append"
    /\ LET appended == Append(messages, [role |-> "assistant", content |-> response])
       IN  messages' = IF Len(appended) > HistoryCap
                       THEN list_suffix(appended, HistoryCap)
                       ELSE appended
    /\ pc' = "idle"
    /\ UNCHANGED <<retrieve_vars, env_vars, initialized, knowledge_loaded, session_kb,
                   prompt, response, request, turns, llm_vars, load_vars, counts, cfg_vars>>

\* a new browser session: st.session_state starts empty and nothing is left
\* of the locals of the old session's runs
NewSession ==
    /\ pc = "idle"
    /\ initialized
    /\ loader_runs < MaxLoads
    /\ initialized' = FALSE
    /\ messages' = <<>>
    /\ knowledge_loaded' = FALSE
    /\ session_kb' = <<>>
    /\ last_load' = NoLoad
    /\ query' = <<>>
    /\ knowledge_base' = <<>>
    /\ rc' = "idle"
    /\ scored_chunks' = <<>>
    /\ top_chunks' = <<>>
    /\ context' = <<>>
    /\ prompt' = <<>>
    /\ response' = <<>>
    /\ request' = <<>>
    /\ history' = <<>>
    /\ lc' = "idle"
    /\ effects' = NoEffects
    /\ UNCHANGED <<max_chunks, calls, env_vars, pc, turns, loader_runs, counts, cfg_vars>>

Next ==
    \/ \E fault \in Faults : Render(fault)
    \/ \E p \in Prompts : Submit(p)
    \/ RetrieveStep
    \/ \E outcome \in Outcomes : LLMStep(outcome)
    \/ AppendStep
    \/ NewSession

Spec == Init /\ [][Next]_vars

\* a run of the page goes on to its end: the script is one thread, and the
\* completion call returns or raises within the client's timeout; the first
\* conjunct is WF_vars(RetrieveStep) written out, ENABLED <<RetrieveStep>>_vars
\* being pc = "retrieve"
FairSpec ==
    /\ Spec
    /\ ([]<>(pc # "retrieve") \/ []<><<RetrieveStep>>_vars)
    /\ WF_vars(\E outcome \in Outcomes : LLMStep(outcome))
    /\ WF_vars(AppendStep)

(***************************************************************************)
(* The chat page after its first render or late in a long session: the     *)
(* history is empty or already holds close to 100 turns, the knowledge     *)
(* base was loaded from the cache file.                                    *)
(***************************************************************************)
DecimalDigits == <<"0", "1", "2", "3", "4", "5", "6", "7", "8", "9">>
\* the k-th message typed by the user, k < 100
NumberedPrompt(k) ==
    <<"Q", DecimalDigits[(k \div 10) + 1], DecimalDigits[(k % 10) + 1]>>
\* a history of n turns, user and assistant in turn
LongHistory(n, reply) ==
    [i \in 1..n |-> IF i % 2 = 1
                    THEN [role |-> "user", content |-> NumberedPrompt((i + 1) \div 2)]
                    ELSE [role |-> "assistant", content |-> reply]]
HistoryLengths == {0, HistoryCap - 4, HistoryCap - 2, HistoryCap}

CapInit ==
    /\ query = <<>>
    /\ knowledge_base = <<>>
    /\ max_chunks = DefaultMaxChunks
    /\ rc = "idle"
    /\ scored_chunks = <<>>
    /\ top_chunks = <<>>
    /\ context = <<>>
    /\ calls = {}
    /\ cache_file \in {c \in CacheFiles : c.exists}
    /\ pdf = [exists |-> FALSE, pages |-> <<>>, error_at |-> 0]
    /\ web = [ok |-> FALSE, text |-> <<>>]
    /\ api_key \in BOOLEAN
    /\ initialized = TRUE
    /\ \E n \in HistoryLengths :
          messages = LongHistory(n, IF api_key THEN CompletionText ELSE ApiKeyMissingText)
    /\ knowledge_loaded = TRUE
    /\ session_kb = cache_file.content
    /\ pc = "idle"
    /\ prompt = <<>>
    /\ response = <<>>
    /\ request = <<>>
    /\ turns = 0
    /\ history = <<>>
    /\ lc = "idle"
    /\ effects = NoEffects
    /\ last_load = [kind |-> "cache", content |-> cache_file.content, raised |-> FALSE]
    /\ loader_runs = 1
    /\ counts = NoCounts
    /\ config = DefaultConfig
    /\ validation = NoValidation

CapNext ==
    \/ \E p \in Prompts : Submit(p)
    \/ RetrieveStep
    \/ \E outcome \in Outcomes : LLMStep(outcome)
    \/ AppendStep

CapSpec == CapInit /\ [][CapNext]_vars

(***************************************************************************)
(* The chat page while the sources change under it; no credential is       *)
(* configured, so every answer is the same warning.                        *)
(***************************************************************************)
EnvInit == Init /\ ~ api_key

\* the PDF file or the web page changes between two runs
SourcesChange ==
    /\ pc = "idle"
    /\ pdf' \in PdfSources
    /\ web' \in WebSources
    /\ <<pdf', web'>> # <<pdf, web>>
    /\ UNCHANGED <<retrieve_vars, cache_file, api_key, session_vars, run_vars,
                   llm_vars, load_vars, counts, cfg_vars>>

EnvNext ==
    \/ \E fault \in Faults : Render(fault)
    \/ \E p \in Prompts : Submit(p)
    \/ RetrieveStep
    \/ \E outcome \in Outcomes : LLMStep(outcome)
    \/ AppendStep
    \/ NewSession
    \/ SourcesChange

EnvSpec == EnvInit /\ [][EnvNext]_vars

(***************************************************************************)
(* Properties.                                                             *)
(***************************************************************************)
Returned == rc = "returned"
QueryWords == query_words_of(query)
KbChunks == str_split(knowledge_base, ChunkSeparator)
ScoreOf(chunk) == chunk_score(QueryWords, chunk)
TrimmedLen(chunk) == Len(str_strip(chunk))
\* indices of the knowledge-base chunks that qualify by length and score above 0
Qualifying == {i \in 1..Len(KbChunks) :
                  TrimmedLen(KbChunks[i]) >= MinChunkLen /\ ScoreOf(KbChunks[i]) > 0}
NonIncreasing(chunks) ==
    \A i \in 1..(Len(chunks) - 1) : ScoreOf(chunks[i]) >= ScoreOf(chunks[i + 1])

\* C1 as stated: for every max_chunks value k, negative ones included, the
\* context holds at most k chunks and the chunks are in non-increasing score order.
C1_AnyK ==
    Returned => (Len(top_chunks) <= max_chunks /\ NonIncreasing(top_chunks))

\* C1 amended: for every max_chunks value k >= 0 the context holds at most k
\* chunks, and for every k the chunks are in non-increasing score order.
C1_AtMostK ==
    Returned =>
        /\ max_chunks >= 0 => Len(top_chunks) <= max_chunks
        /\ NonIncreasing(top_chunks)
        /\ context = str_join(ContextSeparator, top_chunks)

C1_Witness ==
    /\ Returned
    /\ max_chunks >= 1
    /\ Len(scored_chunks) > max_chunks
    /\ Len(top_chunks) = max_chunks
    /\ \E i \in 1..Len(KbChunks) : \E j \in (i + 1)..Len(KbChunks) :
          /\ {i, j} \subseteq Qualifying
          /\ ScoreOf(KbChunks[i]) < ScoreOf(KbChunks[j])

\* C2: no chunk whose trimmed length is below 20 appears in the returned
\* context, even when it contains a query term.
C2_NoShortChunk ==
    (Returned /\ context # <<>>) =>
        /\ \A i \in 1..Len(str_split(context, ContextSeparator)) :
              TrimmedLen(str_split(context, ContextSeparator)[i]) >= MinChunkLen
        /\ \A i \in 1..Len(top_chunks) : TrimmedLen(top_chunks[i]) >= MinChunkLen

C2_Witness ==
    /\ Returned
    /\ context # <<>>
    /\ \E i \in 1..Len(KbChunks) :
          /\ TrimmedLen(KbChunks[i]) < MinChunkLen
          /\ Len(KbChunks[i]) >= MinChunkLen
          /\ \E w \in QueryWords : str_contains(w, str_lower(KbChunks[i]))

\* C3: a query whose word tokens are all stop words (in any letter case, or
\* no token at all) gives the empty string for every knowledge base.
StopWords == {T_what, T_how, T_is, T_the, T_a, T_an, T_are, T_you}
QueryTokens == re_findall_words(str_lower(query), 1, <<>>)

C3_StopWordsOnly ==
    (Returned /\ QueryTokens \subseteq StopWords) => context = <<>>

C3_Witness ==
    /\ Returned
    /\ QueryTokens # {}
    /\ QueryTokens \subseteq StopWords
    /\ query # str_lower(query)
    /\ \E i \in 1..Len(KbChunks) :
          /\ TrimmedLen(KbChunks[i]) >= MinChunkLen
          /\ \E w \in QueryTokens : str_contains(w, str_lower(KbChunks[i]))

\* the loader runs in this step: a run of the page while the loaded flag is unset
LoaderRuns == pc = "idle" /\ ~ (initialized /\ knowledge_loaded) /\ knowledge_loaded'
PdfFails == ~ pdf.exists \/ pdf.error_at # 0
WebFails == ~ web.ok

\* C4: an empty knowledge base gives the empty string for every query, and
\* when both the PDF source and the web source fail during loading the
\* session's knowledge base is the empty string.
C4_EmptyKnowledgeBase ==
    /\ [](Returned /\ knowledge_base = <<>> => context = <<>>)
    /\ [][(LoaderRuns /\ ~ cache_file.exists /\ PdfFails /\ WebFails)
            => session_kb' = <<>>]_vars

RuleFires(term, related, chunk) ==
    term \in QueryWords /\ \E r \in related : str_contains(r, str_lower(chunk))
ExpansionRules ==
    {<<T_attendance, {T_present, T_absent}>>,
     <<T_grade, {T_gpa, T_cgpa, T_mark}>>,
     <<T_exam, {T_test, T_quiz, T_assessment}>>}
ClosedFormScore(chunk) ==
      4 * Cardinality({w \in QueryWords : str_contains(w, str_lower(chunk))})
    + 2 * Cardinality({rule \in ExpansionRules : RuleFires(rule[1], rule[2], chunk)})

\* C6: the score of a chunk that passes the length filter is 4 times the number
\* of matching query terms plus 2 per expansion rule that fires (once per rule),
\* and the chunk is kept exactly when that score is above 0.
C6_ScoreFormula ==
    (Returned /\ knowledge_base # <<>>) =>
        /\ \A i \in 1..Len(scored_chunks) :
              /\ scored_chunks[i][1] = ClosedFormScore(scored_chunks[i][2])
              /\ TrimmedLen(scored_chunks[i][2]) >= MinChunkLen
        /\ \A i \in 1..Len(KbChunks) :
              TrimmedLen(KbChunks[i]) >= MinChunkLen =>
                  (ClosedFormScore(KbChunks[i]) > 0
                      <=> \E j \in 1..Len(scored_chunks) : scored_chunks[j][2] = KbChunks[i])

C6_Witness ==
    /\ Returned
    /\ \E i \in 1..Len(scored_chunks) :
          /\ scored_chunks[i][1] = 8
          /\ T_exam \in QueryWords
          /\ str_contains(T_test, str_lower(scored_chunks[i][2]))
          /\ str_contains(T_quiz, str_lower(scored_chunks[i][2]))
    /\ \E i \in 1..Len(KbChunks) :
          /\ TrimmedLen(KbChunks[i]) >= MinChunkLen
          /\ \A j \in 1..Len(scored_chunks) : scored_chunks[j][2] # KbChunks[i]

\* the chunks of seq whose score is s, in their order
WithScore(chunks, s) ==
    LET Test(c) == ScoreOf(c) = s IN SelectSeq(chunks, Test)
QualifyingInOrder ==
    LET Test(c) == TrimmedLen(c) >= MinChunkLen /\ ScoreOf(c) > 0
    IN  SelectSeq(KbChunks, Test)
SortedChunks == [i \in 1..Len(scored_chunks) |-> scored_chunks[i][2]]

\* C7: kept chunks of equal score are returned in the order in which they occur
\* in the knowledge base, so of two competing for the last place the earlier
\* one is returned.
C7_StableTies ==
    (Returned /\ scored_chunks # <<>>) =>
        /\ \A i \in 1..Len(scored_chunks) :
              WithScore(SortedChunks, scored_chunks[i][1])
                  = WithScore(QualifyingInOrder, scored_chunks[i][1])
        /\ \A i \in 1..Len(top_chunks) : top_chunks[i] = SortedChunks[i]

C7_Witness ==
    /\ Returned
    /\ max_chunks = 1
    /\ Len(scored_chunks) = 2
    /\ scored_chunks[1][1] = scored_chunks[2][1]
    /\ scored_chunks[1][2] # scored_chunks[2][2]
    /\ top_chunks = <<QualifyingInOrder[1]>>

\* C8: for max_chunks = k >= 1 exactly min(k, P) chunks are returned, P the
\* number of qualifying chunks; no omitted qualifying chunk outscores a returned
\* one; the result is empty exactly when P = 0.
MinOf(a, b) == IF a < b THEN a ELSE b
C8_TopK ==
    (Returned /\ max_chunks >= 1) =>
        /\ Len(top_chunks) = MinOf(max_chunks, Cardinality(Qualifying))
        /\ \A j \in 1..Len(top_chunks) :
              Cardinality({i \in Qualifying : ScoreOf(KbChunks[i]) > ScoreOf(top_chunks[j])})
                  = Cardinality({i \in 1..Len(top_chunks) :
                                    ScoreOf(top_chunks[i]) > ScoreOf(top_chunks[j])})
        /\ (context = <<>> <=> Cardinality(Qualifying) = 0)

C8_Witness ==
    /\ Returned
    /\ max_chunks = 1
    /\ Cardinality(Qualifying) = 2
    /\ Len(top_chunks) = 1
    /\ Len(KbChunks) = 2
    /\ top_chunks[1] = KbChunks[2]
    /\ ScoreOf(KbChunks[2]) > ScoreOf(KbChunks[1])

\* C9: for the two-paragraph knowledge base and the query "What is the
\* attendance policy?" the first paragraph outscores the second and is
\* contained in the returned context.
C9_AttendanceExample ==
    (pc = "llm" /\ query = QueryAttendance /\ knowledge_base = CacheTwoParas) =>
        /\ scored_chunks # <<>>
        /\ scored_chunks[1][2] = ParaAttendance
        /\ \A i \in 1..Len(scored_chunks) :
              scored_chunks[i][2] = ParaGrading => scored_chunks[1][1] > scored_chunks[i][1]
        /\ ClosedFormScore(ParaAttendance) > ClosedFormScore(ParaGrading)
        /\ str_contains(ParaAttendance, context)

C9_Witness ==
    /\ pc = "llm"
    /\ query = QueryAttendance
    /\ knowledge_base = CacheTwoParas
    /\ context = ParaAttendance

\* the end-to-end scenario: the cache file holds "X", a blank line, "Y policy Z";
\* the knowledge base was loaded from it and retrieve_context("policy") returned
EndToEnd ==
    /\ pc = "llm"
    /\ cache_file = [exists |-> TRUE, content |-> CacheXY]
    /\ session_kb = CacheXY
    /\ knowledge_base = session_kb
    /\ query = QueryPolicy

\* C10 as stated: in the end-to-end scenario the context equals "Y policy Z".
C10_ContextIsParagraph == EndToEnd => context = ParaYPolicyZ

\* C10 amended: in the end-to-end scenario the context is the empty string,
\* both paragraphs being shorter than 20 characters.
C10_ContextIsEmpty ==
    EndToEnd => (context = <<>> /\ TrimmedLen(ParaYPolicyZ) < MinChunkLen)

C10_Witness == EndToEnd /\ rc = "returned" /\ messages[Len(messages)].content = QueryPolicy

LlmReturned == lc = "returned"
MinNat(a, b) == IF a < b THEN a ELSE b

\* C11: without a credential get_llm_response returns the fixed warning for
\* every query, context and history; it constructs no client and sends no
\* request to the completion endpoint.
C11_NoCredentialWarning ==
    ~ api_key =>
        /\ lc # "raised"
        /\ LlmReturned =>
              /\ response = ApiKeyMissingText
              /\ ~ effects.client
              /\ ~ effects.sent
              /\ effects.outcome = "none"
              /\ request = <<>>

C11_Witness ==
    /\ LlmReturned
    /\ ~ api_key
    /\ history # <<>>
    /\ context # <<>>
    /\ response = ApiKeyMissingText

\* C12: with a credential the request is one system message that embeds the
\* context verbatim, then the last min(6, len(history)) history entries in
\* their order with role and content kept, then the query as the final user
\* message; older history entries are not in the request.
C12_RequestWindow ==
    (LlmReturned /\ api_key) =>
        LET n == MinNat(HistoryWindow, Len(history))
        IN  /\ Len(request) = n + 2
            /\ request[1].role = "system"
            /\ str_contains(context, request[1].content)
            /\ Len(request[1].content) = Len(SystemHead) + Len(context) + Len(SystemTail)
            /\ \A i \in 2..Len(request) : request[i].role # "system"
            /\ \A i \in 1..n : request[1 + i] = history[Len(history) - n + i]
            /\ request[n + 2] = [role |-> "user", content |-> prompt]

C12_Witness ==
    /\ LlmReturned
    /\ api_key
    /\ Len(history) > HistoryWindow
    /\ history[1] # history[Len(history) - HistoryWindow + 1]
    /\ context # <<>>
    /\ Len(request) = HistoryWindow + 2

\* C13: with a credential get_llm_response returns a string for every outcome
\* of the completion call: the text of the first choice on success, an error
\* string when the call raises or the response has no choices; no exception
\* leaves the function.
C13_AlwaysAString ==
    api_key =>
        /\ lc # "raised"
        /\ LlmReturned =>
              /\ effects.sent
              /\ response # <<>>
              /\ effects.outcome = "ok" => response = CompletionText
              /\ effects.outcome \in {"exception", "no_choices"} =>
                    /\ Len(response) > Len(ErrorPrefix)
                    /\ SubSeq(response, 1, Len(ErrorPrefix)) = ErrorPrefix

C13_Witness ==
    /\ LlmReturned
    /\ api_key
    /\ effects.outcome = "no_choices"
    /\ SubSeq(response, 1, Len(ErrorPrefix)) = ErrorPrefix

\* a step in which the loader ran to its return
LoaderCompletes == loader_runs' = loader_runs + 1
\* what the extraction functions give on the sources as they are now
PdfText == load_pdf_content(pdf)
WebText == scrape_web_content(web)
SectionOf(label, body) ==
    IF body = <<>> THEN <<>>
    ELSE <<"\n">> \o Banner \o label \o Banner \o <<"\n">> \o body \o <<"\n">>

\* C14: when the cache file exists, also one written by an earlier load, the
\* loader returns exactly the contents of the file, runs neither the PDF
\* extraction nor the scrape and leaves the file as it is, however the
\* sources have changed since the file was written.
C14_CacheWins ==
    [][(LoaderCompletes /\ cache_file.exists) =>
          /\ session_kb' = cache_file.content
          /\ last_load'.content = cache_file.content
          /\ last_load'.kind = "cache"
          /\ cache_file' = cache_file]_vars

C14_Witness ==
    /\ loader_runs = 2
    /\ last_load.kind = "cache"
    /\ knowledge_loaded
    /\ session_kb = cache_file.content
    /\ str_contains(PdfLabel, session_kb)
    /\ SectionOf(PdfLabel, PdfText) \o SectionOf(WebLabel, WebText) # session_kb

\* C15: without a cache file the loader returns the labelled PDF section, only
\* when the extracted PDF text is non-empty, followed by the labelled WEB
\* section, only when the scraped text is non-empty; the cache file is written
\* with exactly the returned text if and only if that text is non-empty, and
\* when both are empty the result is the empty string and no file is created.
C15_BuildFromSources ==
    [][(LoaderCompletes /\ ~ cache_file.exists) =>
          /\ last_load'.kind = "sources"
          /\ session_kb' = SectionOf(PdfLabel, PdfText) \o SectionOf(WebLabel, WebText)
          /\ str_contains(PdfLabel, session_kb') <=> PdfText # <<>>
          /\ str_contains(WebLabel, session_kb') <=> WebText # <<>>
          /\ (PdfText # <<>> /\ WebText # <<>>) =>
                str_find(session_kb', PdfLabel, 1) < str_find(session_kb', WebLabel, 1)
          /\ session_kb' # <<>> => cache_file' = [exists |-> TRUE, content |-> session_kb']
          /\ session_kb' = <<>> => cache_file' = cache_file]_vars

C15_Witness ==
    /\ last_load.kind = "sources"
    /\ ~ last_load.raised
    /\ knowledge_loaded
    /\ str_contains(PdfLabel, session_kb)
    /\ str_contains(WebLabel, session_kb)
    /\ cache_file = [exists |-> TRUE, content |-> session_kb]

\* C16: the loader never raises: whatever fails in its environment (PDF
\* missing or unreadable, URL unreachable, cache directory that cannot be
\* created, cache file that cannot be read or written) it returns a string.
C16_LoaderNeverRaises == ~ last_load.raised

\* C17: every failed extraction contributes the empty string: a PDF that is
\* missing, unreadable or raises on any page, also after earlier pages were
\* read, gives no PDF section, and a failed fetch gives no WEB section.
C17_FailureIsEmpty ==
    [][(LoaderCompletes /\ ~ cache_file.exists) =>
          /\ PdfFails => ~ str_contains(PdfLabel, session_kb')
          /\ WebFails => ~ str_contains(WebLabel, session_kb')]_vars

\* every user turn of the history is directly followed by an assistant turn
\* and every assistant turn directly follows a user turn
TurnsPaired ==
    /\ \A i \in 1..Len(messages) :
          messages[i].role = "user" =>
              (i < Len(messages) /\ messages[i + 1].role = "assistant")
    /\ \A i \in 1..Len(messages) :
          messages[i].role = "assistant" => (i > 1 /\ messages[i - 1].role = "user")

\* C18: no failure aborts an interaction: every submitted user message,
\* whether the knowledge base is empty, the credential is missing or the
\* completion call fails, leads to the end of the run with exactly one
\* assistant turn appended directly after that user turn.
C18_InteractionCompletes ==
    /\ [](pc = "idle" => TurnsPaired)
    /\ [](lc # "raised")
    /\ (pc = "retrieve") ~>
          (/\ pc = "idle"
           /\ Len(messages) >= 2
           /\ messages[Len(messages) - 1] = [role |-> "user", content |-> prompt]
           /\ messages[Len(messages)] = [role |-> "assistant", content |-> response])

C18_Witness ==
    /\ pc = "idle"
    /\ api_key
    /\ session_kb = <<>>
    /\ Len(messages) = 4
    /\ messages[2].content = ErrorPrefix \o ExceptionText
    /\ messages[3].role = "user"
    /\ messages[4].content = CompletionText

\* C19: the history is capped: after every completed interaction it holds at
\* most 100 turns, and a trim keeps the 100 most recent turns in their order.
C19_HistoryCapped ==
    /\ [](pc = "idle" => Len(messages) <= HistoryCap)
    /\ [][pc = "append" =>
            LET appended == Append(messages, [role |-> "assistant", content |-> response])
                dropped == Len(appended) - Len(messages')
            IN  /\ dropped >= 0
                /\ Len(appended) <= HistoryCap => dropped = 0
                /\ Len(appended) > HistoryCap => Len(messages') = HistoryCap
                /\ \A i \in 1..Len(messages') : messages'[i] = appended[i + dropped]]_vars

C19_Witness ==
    /\ pc = "idle"
    /\ turns = 2
    /\ Len(messages) = HistoryCap
    /\ messages[1] = [role |-> "user", content |-> NumberedPrompt(3)]
    /\ messages[HistoryCap - 3].content \in Prompts
    /\ messages[HistoryCap - 1].content \in Prompts
    /\ messages[HistoryCap].role = "assistant"

SessionLoaded == initialized /\ knowledge_loaded

\* C20 as stated: the knowledge base is loaded once per process lifetime: once
\* a load has completed the loader is never run again, and the in-memory
\* knowledge base stays what that load returned.
C20_OncePerProcess ==
    /\ [](SessionLoaded => session_kb = last_load.content)
    /\ [][loader_runs >= 1 => loader_runs' = loader_runs]_vars

\* C20 amended: the knowledge base is loaded once per session: while the
\* session lasts, over renders, user messages and changes of the sources, the
\* loader is not run again after the session's load has completed, and the
\* in-memory knowledge base, which is what retrieval is called with, stays
\* what that load returned.
C20_OncePerSession ==
    /\ [](SessionLoaded => (session_kb = last_load.content /\ ~ last_load.raised))
    /\ [](pc \in {"llm", "append"} => knowledge_base = last_load.content)
    /\ [][(SessionLoaded /\ initialized') =>
             /\ loader_runs' = loader_runs
             /\ last_load' = last_load
             /\ knowledge_loaded'
             /\ session_kb' = session_kb]_vars

C20_Witness ==
    /\ SessionLoaded
    /\ pc = "llm"
    /\ turns = 2
    /\ loader_runs = 1
    /\ last_load.kind = "sources"
    /\ session_kb = <<>>
    /\ knowledge_base = <<>>
    /\ ~ cache_file.exists
    /\ PdfText # <<>>
    /\ WebText # <<>>

\* the rules of a valid configuration
RuleApiKey == config.api_key # ""
RuleChunkSize == config.chunk_size > 0
RuleOverlap == 0 <= config.chunk_overlap /\ config.chunk_overlap < config.chunk_size
RuleThreshold == 0 <= config.similarity_threshold /\ config.similarity_threshold <= ThresholdOne
Listed(e) == \E i \in 1..Len(validation.errors) : validation.errors[i] = e

\* C22: Config.validate returns True exactly when the API key is non-empty,
\* chunk_size > 0, 0 <= chunk_overlap < chunk_size and the threshold is within
\* 0..1; otherwise it raises ValueError with a message that lists every
\* violated rule; it never returns False and leaves the configuration as it was.
C22_ValidateTotal ==
    /\ [](validation.state # "none" =>
            /\ validation.state = "returned" <=>
                  (RuleApiKey /\ RuleChunkSize /\ RuleOverlap /\ RuleThreshold)
            /\ validation.state = "returned" => validation.value = "True"
            /\ validation.state = "raised" =>
                  /\ validation.value = "ValueError"
                  /\ ~ RuleApiKey <=> Listed(ErrApiKey)
                  /\ ~ RuleChunkSize <=> Listed(ErrChunkSize)
                  /\ ~ RuleOverlap <=> (Listed(ErrOverlapNegative) \/ Listed(ErrOverlapTooLarge))
                  /\ ~ RuleThreshold <=> Listed(ErrThreshold))
    /\ [][config' = config]_vars

C22_Witness ==
    /\ validation.state = "raised"
    /\ Len(validation.errors) = 3
    /\ RuleApiKey
    /\ config.chunk_size = 0
    /\ config.chunk_overlap = 0
    /\ ~ RuleThreshold

\* the calls of a run in their order: the retrieval for the message is done
\* before get_llm_response is called, the call is given the context that the
\* retrieval returned for the prompt, and no other step calls either function
CallsInOrder ==
    /\ [](pc = "retrieve" => (counts.retrievals = turns - 1 /\ counts.llm_calls = turns - 1))
    /\ [](pc = "llm" => (counts.retrievals = turns /\ counts.llm_calls = turns - 1))
    /\ [](pc \in {"idle", "append"} =>
            (counts.retrievals = turns /\ counts.llm_calls = turns))
    /\ [][pc = "llm" =>
            /\ context = retrieve_context(prompt, session_kb, DefaultMaxChunks).context
            /\ api_key => request'[1].content = system_prompt(context)]_vars
    /\ [][(pc = "idle" \/ pc = "append") => (counts' = counts)]_vars

\* C21 as stated: every user message triggers exactly one retrieval call and
\* then exactly one network call to the completion endpoint, the call getting
\* the context retrieved for that message; a render without a message
\* triggers neither.
C21_OneNetworkCallPerMessage ==
    /\ CallsInOrder
    /\ [](pc \in {"idle", "append"} => counts.requests = turns)

\* C21 amended: every user message triggers exactly one retrieval call and
\* then exactly one call of get_llm_response, which makes exactly one network
\* call when a credential is configured and none when it is missing.
C21_OneCallPerMessage ==
    /\ CallsInOrder
    /\ [](pc \in {"idle", "append"} =>
            counts.requests = (IF api_key THEN turns ELSE 0))

C21_Witness ==
    /\ pc = "idle"
    /\ ~ api_key
    /\ turns = 2
    /\ counts = [retrievals |-> 2, llm_calls |-> 2, requests |-> 0]
    /\ context # <<>>
    /\ Len(messages) = 4

RoleAt(i) == IF i % 2 = 1 THEN "user" ELSE "assistant"

\* C23: between interactions the history has even length and alternates user,
\* assistant, ... starting with a user turn; appending the two turns of an
\* interaction and trimming to the last 100 keeps this, a trim removing whole
\* pairs.
C23_Alternates ==
    /\ [](pc = "idle" =>
            /\ Len(messages) % 2 = 0
            /\ \A i \in 1..Len(messages) : messages[i].role = RoleAt(i))
    /\ [][pc = "append" =>
            (Len(messages) + 1 - Len(messages')) % 2 = 0]_vars

C23_Witness ==
    /\ pc = "idle"
    /\ turns = 2
    /\ Len(messages) = HistoryCap
    /\ messages[1].role = "user"
    /\ messages[1].content = NumberedPrompt(2)
    /\ messages[HistoryCap].role = "assistant"

\* C24: the history given to get_llm_response leaves out the user turn just
\* appended, so the request holds the current prompt once as a message of
\* this turn, namely as its final user message after an assistant turn or the
\* system message; the request holds 2 to 8 messages and after the system
\* message they alternate user, assistant, ... and end with the current prompt.
C24_PromptOnce ==
    (pc = "append" /\ api_key) =>
        /\ history = SubSeq(messages, 1, Len(messages) - 1)
        /\ messages[Len(messages)] = [role |-> "user", content |-> prompt]
        /\ Len(request) >= 2
        /\ Len(request) <= HistoryWindow + 2
        /\ request[1].role = "system"
        /\ \A i \in 2..Len(request) : request[i].role = RoleAt(i - 1)
        /\ request[Len(request)] = [role |-> "user", content |-> prompt]
        /\ Len(request) = MinNat(HistoryWindow, Len(messages) - 1) + 2

C24_Witness ==
    /\ pc = "append"
    /\ api_key
    /\ Len(request) = HistoryWindow + 2
    /\ request[HistoryWindow].content = prompt
    /\ request[HistoryWindow + 2].content = prompt
    /\ request[HistoryWindow + 1].role = "assistant"

\* the session holds the result of a load from the sources that was empty
EmptyLoad == SessionLoaded /\ last_load.kind = "sources" /\ session_kb = <<>>

\* C25: an empty load is sticky within a session and not across sessions: the
\* session sets its loaded flag, never loads again, and each of its retrievals
\* returns the empty context even when the sources become available; no cache
\* file was written, so the first render of a new session extracts again.
C25_EmptyLoadSticky ==
    /\ [][(LoaderCompletes /\ last_load'.kind = "sources" /\ last_load'.content = <<>>) =>
             (knowledge_loaded' /\ session_kb' = <<>> /\ ~ cache_file'.exists)]_vars
    /\ [][(EmptyLoad /\ initialized') =>
             /\ loader_runs' = loader_runs
             /\ EmptyLoad'
             /\ ~ cache_file'.exists
             /\ pc = "retrieve" => context' = <<>>]_vars
    /\ [][(~ SessionLoaded /\ LoaderCompletes /\ ~ cache_file.exists) =>
             /\ last_load'.kind = "sources"
             /\ session_kb' = SectionOf(PdfLabel, PdfText) \o SectionOf(WebLabel, WebText)]_vars

C25_Witness ==
    /\ SessionLoaded
    /\ loader_runs = 2
    /\ last_load.kind = "sources"
    /\ session_kb # <<>>
    /\ \E c \in calls : c.knowledge_base = <<>> /\ c.context = <<>>
    /\ pc = "llm"
    /\ context # <<>>

\* the query terms that occur in the chunk and the expansion rules that fire on it
TermsIn(chunk) == {w \in QueryWords : str_contains(w, str_lower(chunk))}
RulesOn(chunk) == {rule \in ExpansionRules : RuleFires(rule[1], rule[2], chunk)}
BonusOnly(chunk) == TermsIn(chunk) = {} /\ RulesOn(chunk) # {}
OneTermNoBonus(chunk) == Cardinality(TermsIn(chunk)) = 1 /\ RulesOn(chunk) = {}
\* the position of a chunk among the returned chunks, 0 when it is not returned
ReturnedAt(chunk) ==
    IF \E i \in 1..Len(top_chunks) : top_chunks[i] = chunk
    THEN CHOOSE i \in 1..Len(top_chunks) :
             top_chunks[i] = chunk /\ \A j \in 1..(i - 1) : top_chunks[j] # chunk
    ELSE 0

ChunksVerbatim ==
    \A i \in 1..Len(top_chunks) :
        /\ \E j \in 1..Len(KbChunks) : KbChunks[j] = top_chunks[i]
        /\ ~ str_contains(ChunkSeparator, top_chunks[i])
        /\ ~ str_contains(ContextSeparator, top_chunks[i])

\* C27 as stated: every returned chunk is a verbatim element of the knowledge
\* base split at blank lines and contains no blank line and no separator, and
\* splitting the returned context at the separator recovers the sequence of
\* selected chunks.
C27_SplitRecoversAlways ==
    Returned =>
        /\ ChunksVerbatim
        /\ str_split(context, ContextSeparator) = top_chunks

\* C27: every returned chunk is a verbatim element of the knowledge base split
\* at blank lines and contains no blank line and no separator; when at least one
\* chunk is selected, splitting the returned context at the separator recovers
\* the sequence of selected chunks, and the empty context of an empty selection
\* splits into one empty string.
C27_SplitRecovers ==
    Returned =>
        /\ ChunksVerbatim
        /\ top_chunks # <<>> => str_split(context, ContextSeparator) = top_chunks
        /\ top_chunks = <<>> => (context = <<>> /\ str_split(context, ContextSeparator) = << <<>> >>)

C27_Witness ==
    /\ Returned
    /\ Len(top_chunks) = 2
    /\ top_chunks[1][1] = "\n"
    /\ top_chunks[2][1] = "\n"
    /\ str_split(context, ContextSeparator) = top_chunks

\* a is an initial segment of b
IsPrefix(a, b) == Len(a) <= Len(b) /\ a = SubSeq(b, 1, Len(a))

\* C28: for a fixed query and knowledge base and 0 <= j <= k, the chunks
\* returned with max_chunks = j are a prefix of the chunks returned with
\* max_chunks = k, and with max_chunks = 0 the result is the empty string.
C28_PrefixInLimit ==
    (Returned /\ max_chunks >= 0) =>
        \A j \in 0..max_chunks :
            LET r == retrieve_context(query, knowledge_base, j)
            IN  /\ IsPrefix(r.top_chunks, top_chunks)
                /\ Len(r.top_chunks) = MinNat(j, Len(scored_chunks))
                /\ r.context = str_join(ContextSeparator, r.top_chunks)
                /\ j = 0 => r.context = <<>>

C28_Witness ==
    /\ Returned
    /\ max_chunks = 2
    /\ Len(top_chunks) = 2
    /\ top_chunks[1] # top_chunks[2]
    /\ retrieve_context(query, knowledge_base, 1).top_chunks = <<top_chunks[1]>>
    /\ retrieve_context(query, knowledge_base, 0).context = <<>>

\* the distinct lower-cased word tokens of a query that are not stop words
TermSetOf(q) == re_findall_words(str_lower(q), 1, <<>>) \ StopWords

\* C29: the result depends on the query only through its set of distinct
\* lower-cased word tokens minus the stop words: two queries with the same set
\* return the same context for every knowledge base and max_chunks.
C29_QueryThroughTermSet ==
    Returned =>
        \A q \in Queries :
            TermSetOf(q) = TermSetOf(query) =>
                retrieve_context(q, knowledge_base, max_chunks).context = context

C29_Witness ==
    /\ Returned
    /\ query = QueryExamGrade
    /\ TermSetOf(QueryGradeExam) = TermSetOf(query)
    /\ context # <<>>
    /\ Len(top_chunks) = 2
    /\ retrieve_context(QueryGradeExam, knowledge_base, max_chunks).context = context

\* the web section of line 215 without its first newline, and the chunks of the
\* knowledge base of the session
WebSectionBody == Banner \o WebLabel \o Banner \o <<"\n">> \o WebText \o <<"\n">>
SessionChunks == str_split(session_kb, ChunkSeparator)
WebChunk == SessionChunks[Len(SessionChunks)]
BuiltWithWeb == SessionLoaded /\ last_load.kind = "sources" /\ WebText # <<>>

\* C30: the text returned by scrape_web_content contains no empty line, so in a
\* knowledge base built by the loader the web section with its banner is one
\* chunk of the split, the last one, and is scored and returned as one unit.
C30_WebSectionOneChunk ==
    /\ WebText # <<>> =>
          /\ \A i \in 1..Len(str_split(WebText, <<"\n">>)) :
                Len(str_split(WebText, <<"\n">>)[i]) > MinLineLen
          /\ ~ str_contains(ChunkSeparator, WebText)
    /\ BuiltWithWeb =>
          /\ WebChunk \in {WebSectionBody, <<"\n">> \o WebSectionBody}
          /\ \A i \in 1..(Len(SessionChunks) - 1) :
                ~ str_contains(WebLabel, SessionChunks[i])
    /\ (BuiltWithWeb /\ pc \in {"llm", "append"}) =>
          /\ knowledge_base = session_kb
          /\ \A i \in 1..Len(scored_chunks) :
                str_contains(WebLabel, scored_chunks[i][2]) =>
                    /\ scored_chunks[i][2] = WebChunk
                    /\ scored_chunks[i][1] = chunk_score(query_words_of(query), WebChunk)
          /\ \A i \in 1..Len(top_chunks) :
                str_contains(WebLabel, top_chunks[i]) => top_chunks[i] = WebChunk
          /\ str_contains(WebLabel, context) =>
                \E i \in 1..Len(top_chunks) : top_chunks[i] = WebChunk

C30_Witness ==
    /\ BuiltWithWeb
    /\ str_contains(ChunkSeparator, web.text)
    /\ PdfText # <<>>
    /\ pc = "llm"
    /\ Len(SessionChunks) > 1
    /\ WebChunk = <<"\n">> \o WebSectionBody
    /\ \E i \in 1..Len(top_chunks) : top_chunks[i] = WebChunk
====
